---- MODULE Spec2Model ----
(***************************************************************************)
(* BistroHunter: the restaurant search service of src/bistrohunter.py and  *)
(* src/main.py as a state machine.                                         *)
(*                                                                         *)
(* Units.  Latitudes and longitudes are integers in 1e-5 degree; radii are *)
(* integers in metres (0.5 km = 500).  A comma separated string (zona,     *)
(* price_range, cocina, dish) is the sequence of its comma separated       *)
(* tokens, and None or the empty string is the empty sequence.             *)
(***************************************************************************)
EXTENDS Integers, Sequences, FiniteSets, TLC

VARIABLES
    table,                    \* the Airtable table 'Restaurantes DB': id -> fields
    restaurantes_cache,       \* the TTLCache shared by the two cached functions
    now,                      \* the cache timer, in seconds
    pc,                       \* where the request being served stands
    req,                      \* the request being served (or the last one served)
    zi,                       \* index of zona_item in zonas_list
    centro,                   \* lat_centro, lon_centro (known = FALSE before they are bound)
    radio_km,                 \* the loop's radio_km, in metres
    restaurantes_encontrados, \* the accumulated records
    filter_formula,           \* the formula of the last query of the city loop
    response,                 \* the HTTP response of the request served last
    geoCalls,                 \* geocoder calls made for the request
    airCalls,                 \* the HTTP calls to Airtable made for the request: radius, outcome
    recibidos,                \* the records Airtable has answered the request with
    served,                   \* requests received so far
    faults,                   \* upstream failures so far
    updates                   \* record edits so far

vars == <<table, restaurantes_cache, now, pc, req, zi, centro, radio_km,
          restaurantes_encontrados, filter_formula, response, geoCalls,
          airCalls, recibidos, served, faults, updates>>

----------------------------------------------------------------------------
(* Bounds of the model *)

MaxRequests == 1
MaxFaults == 1
MaxUpdates == 1
MaxTime == 1800
MaxRepeats == 1
MaxRadioMinimo == 3

(* Constants of the program *)

TTL == 1800             \* TTLCache(maxsize=10000, ttl=60*30)
MaxRecords == 10        \* "maxRecords": 10
TargetCount == 10       \* while len(restaurantes_encontrados) < 10 ... [:10]
RadioDefecto == 1000    \* radio_km: float = 1.0
RadioInicialDelArgumento == RadioDefecto  \* faulty variant: the loop starts at the argument
RadioInicial == 500     \* radio_km = 0.5
RadioPaso == 500        \* radio_km += 0.5
RadioMax == 2000        \* if radio_km > 2: break
RadioGet == 2000        \* radio_km = 2.0 in get_restaurantes
KmPorGradoLat == 11132  \* km_por_grado_lat = 111.32

----------------------------------------------------------------------------
(* Sequence helpers *)

InSeq(s, e) == \E i \in 1..Len(s) : s[i] = e

Take(s, n) == SubSeq(s, 1, IF n < Len(s) THEN n ELSE Len(s))

Abs(n) == IF n < 0 THEN -n ELSE n

----------------------------------------------------------------------------
(* Geospatial math *)

\* round(1000 * cos(d degrees)) for d = 0..90, indexed from 1
CosTable ==
    << 1000, 1000, 999, 999, 998, 996, 995, 993, 990, 988, 985, 982, 978,
       974, 970, 966, 961, 956, 951, 946, 940, 934, 927, 921, 914, 906, 899,
       891, 883, 875, 866, 857, 848, 839, 829, 819, 809, 799, 788, 777, 766,
       755, 743, 731, 719, 707, 695, 682, 669, 656, 643, 629, 616, 602, 588,
       574, 559, 545, 530, 515, 500, 485, 469, 454, 438, 423, 407, 391, 375,
       358, 342, 326, 309, 292, 276, 259, 242, 225, 208, 191, 174, 156, 139,
       122, 105, 87, 70, 52, 35, 17, 0 >>

\* cos(radians(lat)) in thousandths, read at the nearest whole degree
CosMilli(lat) == CosTable[((Abs(lat) + 50000) \div 100000) + 1]

\* haversine(lon1, lat1, lon2, lat2): the great-circle distance.  For the
\* distances of a city the haversine is increasing in the planar distance
\* dlat^2 + (cos(lat1) * dlon)^2; the operator returns that square, in
\* (1e-5 degree)^2, which orders points exactly as the kilometres do.
haversine(lon1, lat1, lon2, lat2) ==
    LET dlon == Abs(lon2 - lon1)
        dlat == Abs(lat2 - lat1)
        x == (dlon * CosMilli(lat1)) \div 1000
    IN  dlat * dlat + x * x

\* faulty variant: the longitude bounds are swapped
CajaInvertida(lat, lon, radio) ==
    LET delta_lat == (radio * 10000) \div KmPorGradoLat
        km_por_grado_lon == (KmPorGradoLat * CosMilli(lat)) \div 1000
        delta_lon == (radio * 10000) \div km_por_grado_lon
    IN  [lat_min |-> lat - delta_lat, lat_max |-> lat + delta_lat,
         lon_min |-> lon + delta_lon, lon_max |-> lon - delta_lon]

\* The program computes in double precision: a delta smaller than the
\* spacing of the numbers around the coordinate is lost when it is added to
\* it.  Here the spacing is the unit, 1e-5 degree, and \div loses what is
\* below it.
calcular_bounding_box(lat, lon, radio) ==
    LET delta_lat == (radio * 10000) \div KmPorGradoLat
        km_por_grado_lon == (KmPorGradoLat * CosMilli(lat)) \div 1000
        delta_lon == (radio * 10000) \div km_por_grado_lon
    IN  [lat_min |-> lat - delta_lat, lat_max |-> lat + delta_lat,
         lon_min |-> lon - delta_lon, lon_max |-> lon + delta_lon]

----------------------------------------------------------------------------
(* The collaborators: the geocoding service and the Airtable table *)

Punto(lat, lng) == [lat |-> lat, lng |-> lng]

Madrid == Punto(4041680, -370380)

\* what the geocoder knows: "zona <zona>, <ciudad>" resolves by its zona
ZonasConocidas ==
    [z \in {"Malasana", "Chueca"} |->
        IF z = "Malasana" THEN Punto(4042540, -370580)
                          ELSE Punto(4041780, -370080)]

CiudadesConocidas == [c \in {"Madrid"} |-> Madrid]

\* a record's field map; the place is given as an offset from the centre of
\* Madrid
Campos(dlat, dlng, nbh2, precio) ==
    [lat |-> Madrid.lat + dlat, lng |-> Madrid.lng + dlng, NBH2 |-> nbh2,
     price_range |-> {precio}, categories |-> {"Italiana"},
     reviews |-> {"pizza"}, bh_message |-> 0]

TablaInicial ==
    <<Campos(100, 100, 95, "20-30"),  Campos(-150, 200, 93, "30-40"),
      Campos(300, -100, 91, "20-30"), Campos(350, 400, 89, "30-40"),
      Campos(-300, -300, 87, "30-40"), Campos(200, -450, 85, "30-40"),
      Campos(-400, 100, 83, "30-40"), Campos(400, 0, 81, "30-40"),
      Campos(-100, -500, 79, "30-40"), Campos(250, 250, 55, "30-40"),
      Campos(10, 10, 60, "30-40"),    Campos(1200, -100, 99, "20-30")>>

Ids == DOMAIN TablaInicial

\* the records whose description somebody edits while the service runs
Editables == {1}

----------------------------------------------------------------------------
(* Query formula builder: bistrohunter.py lines 187-228, 263-271, 318-326 *)

Hoja(fn, field, str) == [fn |-> fn, field |-> field, str |-> str, num |-> 0, sub |-> <<>>]

Grupo(fn, sub) == [fn |-> fn, field |-> "", str |-> "", num |-> 0, sub |-> sub]

Limite(fn, field, num) == [fn |-> fn, field |-> field, str |-> "", num |-> num, sub |-> <<>>]

Hojas(fn, field, toks) == [i \in 1..Len(toks) |-> Hoja(fn, field, toks[i])]

\* formula_parts after the four "if" blocks; dia_semana and city add nothing
formula_parts(price_range, cocina, diet, dish) ==
    (IF price_range = <<>> THEN <<>>
     ELSE IF Len(price_range) = 1
          THEN <<Hoja("FIND", "price_range", price_range[1])>>
          ELSE <<Grupo("OR", Hojas("FIND", "price_range", price_range))>>)
    \o
    (IF cocina = <<>> THEN <<>>
     ELSE IF Len(cocina) = 1
          THEN <<Hoja("SEARCH", "categories_string", cocina[1])>>
          ELSE <<Grupo("OR", Hojas("SEARCH", "categories_string", cocina))>>)
    \o
    (IF diet = "" THEN <<>> ELSE <<Hoja("SEARCH", "categories_string", diet)>>)
    \o
    (IF dish = <<>> THEN <<>>
     ELSE IF Len(dish) = 1
          THEN <<Hoja("SEARCH", "google_reviews", dish[1])>>
          ELSE <<Grupo("IF", Hojas("SEARCH", "google_reviews", dish))>>)

\* the four bounding box inequalities appended to a copy of formula_parts
ConLimites(parts, limites) ==
    parts \o <<Limite(">=", "location/lat", limites.lat_min),
               Limite("<=", "location/lat", limites.lat_max),
               Limite(">=", "location/lng", limites.lon_min),
               Limite("<=", "location/lng", limites.lon_max)>>

----------------------------------------------------------------------------
(* The Airtable endpoint: filterByFormula, sort by NBH2 desc, maxRecords *)

EvalHoja(f, c) ==
    CASE c.fn = "FIND" -> c.str \in f.price_range
      [] c.fn = "SEARCH" /\ c.field = "categories_string" -> c.str \in f.categories
      [] c.fn = "SEARCH" /\ c.field = "google_reviews" -> c.str \in f.reviews
      [] c.fn = ">=" /\ c.field = "location/lat" -> f.lat >= c.num
      [] c.fn = "<=" /\ c.field = "location/lat" -> f.lat <= c.num
      [] c.fn = ">=" /\ c.field = "location/lng" -> f.lng >= c.num
      [] c.fn = "<=" /\ c.field = "location/lng" -> f.lng <= c.num
      [] OTHER -> FALSE

EvalClausula(f, c) ==
    CASE c.fn = "OR" -> \E i \in 1..Len(c.sub) : EvalHoja(f, c.sub[i])
      [] c.fn = "IF" ->
            IF \A i \in 1..Len(c.sub) : EvalHoja(f, c.sub[i])
            THEN TRUE
            ELSE \E i \in 1..Len(c.sub) : EvalHoja(f, c.sub[i])
      [] OTHER -> EvalHoja(f, c)

\* AND(part, part, ...)
EvalFormula(f, parts) == \A i \in 1..Len(parts) : EvalClausula(f, parts[i])

RECURSIVE PorNBH2(_, _)
PorNBH2(tb, S) ==
    IF S = {} THEN <<>>
    ELSE LET m == CHOOSE i \in S : \A j \in S :
                    \/ tb[i].NBH2 > tb[j].NBH2
                    \/ tb[i].NBH2 = tb[j].NBH2 /\ i <= j
         IN  <<[id |-> m, fields |-> tb[m]]>> \o PorNBH2(tb, S \ {m})

\* the 'records' of a 200 answer
Registros(tb, parts) ==
    Take(PorNBH2(tb, {i \in DOMAIN tb : EvalFormula(tb[i], parts)}), MaxRecords)

----------------------------------------------------------------------------
(* Requests *)

Num(v) == [num |-> TRUE, val |-> v]

NoNum == [num |-> FALSE, val |-> 0]

\* "40.4224,-3.7038": a point 620 m north of the centre of Madrid
CoordenadasBuenas == <<Num(4042240), Num(-370380)>>

\* a list of one number (POST) and the text "abc" (GET)
CoordenadasMalas == {<<Num(4042240)>>, <<NoNum>>}

Peticion(path, city, date, price_range, cocina, zona, coordenadas) ==
    [path |-> path, city |-> city, date |-> date, price_range |-> price_range,
     cocina |-> cocina, diet |-> "", dish |-> <<>>, zona |-> zona,
     coordenadas |-> coordenadas]

ZonasPedidas == {<<>>, <<"Malasana">>, <<"Atlantida">>, <<"Malasana", "Chueca">>}

PeticionesPost ==
    {Peticion("POST", "Madrid", <<>>, <<>>, <<>>, z, c) :
        z \in ZonasPedidas, c \in {<<>>, CoordenadasBuenas, <<Num(4042240)>>}}
    \cup
    {Peticion("POST", "Madrid", <<>>, <<"20-30">>, <<>>, <<>>, <<>>),
     Peticion("POST", "Madrid", <<>>, <<>>, <<"Japonesa">>, <<>>, <<>>),
     Peticion("POST", "", <<>>, <<>>, <<>>, <<>>, <<>>),
     Peticion("POST", "Madrid", <<2025, 3, 10>>, <<>>, <<>>, <<>>, CoordenadasBuenas),
     Peticion("POST", "Madrid", <<2025, 13, 40>>, <<>>, <<>>, <<>>, <<>>)}

PeticionesGet ==
    {Peticion("GET", "Madrid", <<>>, <<>>, <<>>, z, c) :
        z \in {<<>>, <<"Malasana">>, <<"Atlantida">>},
        c \in {<<>>, CoordenadasBuenas, <<NoNum>>}}

SinPeticion == Peticion("", "", <<>>, <<>>, <<>>, <<>>, <<>>)

----------------------------------------------------------------------------
(* main.py: dates *)

Bisiesto(y) == (y % 4 = 0 /\ y % 100 # 0) \/ y % 400 = 0

DiasDelMes(y, m) ==
    IF m = 2 THEN (IF Bisiesto(y) THEN 29 ELSE 28)
    ELSE IF m \in {4, 6, 9, 11} THEN 30 ELSE 31

\* datetime.strptime(date, "%Y-%m-%d") does not raise ValueError
FechaValida(date) ==
    /\ Len(date) = 3
    /\ date[1] >= 1
    /\ date[2] \in 1..12
    /\ date[3] >= 1 /\ date[3] <= DiasDelMes(date[1], date[2])

RECURSIVE DiasAntesDelMes(_, _)
DiasAntesDelMes(y, m) ==
    IF m <= 1 THEN 0 ELSE DiasAntesDelMes(y, m - 1) + DiasDelMes(y, m - 1)

\* date.toordinal()
Ordinal(date) ==
    LET y == date[1] - 1
    IN  365 * y + (y \div 4) - (y \div 100) + (y \div 400)
        + DiasAntesDelMes(date[1], date[2]) + date[3]

dias_semana == <<"lunes", "martes", "miercoles", "jueves", "viernes", "sabado", "domingo">>

\* dias_semana[fecha.weekday()]
obtener_dia_semana(fecha) == dias_semana[((Ordinal(fecha) + 6) % 7) + 1]

----------------------------------------------------------------------------
(* The cache decorator: bistrohunter.py lines 143-154 *)

\* cache_key = f"{func.__name__}:{args}:{kwargs}"
Clave(fn, args) == [fn |-> fn, args |-> args]

\* the keyword arguments procesar_variables passes
Kwargs(r) ==
    [city |-> r.city,
     dia_semana |-> IF r.date = <<>> THEN "" ELSE obtener_dia_semana(r.date),
     price_range |-> r.price_range, cocina |-> r.cocina, diet |-> r.diet,
     dish |-> r.dish, zona |-> r.zona, coordenadas |-> r.coordenadas]

ClaveBusqueda(r) == Clave("obtener_restaurantes_por_ciudad", Kwargs(r))

ClaveAirtable(formula) == Clave("airtable_request", formula)

\* faulty variant: an entry is still served at the instant of its expiry
VivasTardias(cache, t) == {e \in cache : t <= e.exp}

\* an entry is gone once the timer reaches its expiry
Vivas(cache, t) == {e \in cache : t < e.exp}

EnCache(cache, t, key) == \E e \in Vivas(cache, t) : e.key = key

ValorEnCache(cache, t, key) == (CHOOSE e \in Vivas(cache, t) : e.key = key).val

Guardar(cache, t, key, val) ==
    {e \in Vivas(cache, t) : e.key # key} \cup {[key |-> key, val |-> val, exp |-> t + TTL]}

----------------------------------------------------------------------------
(* Upstream calls.  Each is the set of outcomes the call may have; an      *)
(* outcome with fault = TRUE is an upstream failure.                       *)

SinLugar == [found |-> FALSE, location |-> Punto(0, 0), fault |-> FALSE]

Hallado(loc) == [found |-> TRUE, location |-> loc, fault |-> FALSE]

Averia ==
    IF faults < MaxFaults
    THEN {[found |-> FALSE, location |-> Punto(0, 0), fault |-> TRUE]}
    ELSE {}

\* status OK: the first result's location; any other status, an empty result
\* list or a failed request: None
obtener_coordenadas_zona(zona, ciudad, radio) ==
    IF zona \in DOMAIN ZonasConocidas
    THEN {Hallado(ZonasConocidas[zona])} \cup Averia
    ELSE {SinLugar}

obtener_coordenadas(ciudad, radio) ==
    IF ciudad \in DOMAIN CiudadesConocidas
    THEN {Hallado(CiudadesConocidas[ciudad])} \cup Averia
    ELSE {SinLugar}

\* faulty variant: the centre is the place of the geocoder's first result
BusquedaDevuelveResultado(coordenadas) == {Hallado(Madrid)} \cup Averia

\* the reverse lookup of the pair: status OK gives the pair itself back
busqueda_coordenadas_airtable(coordenadas) ==
    {Hallado(Punto(coordenadas[1].val, coordenadas[2].val))} \cup Averia

\* airtable_request behind cache_airtable_request: the cached value while the
\* key is alive; else the answer of requests.get: 200 with the records, a
\* status other than 200 (None), or an exception that leaves the cache alone
airtable_request(formula) ==
    LET key == ClaveAirtable(formula)
        ok == [none |-> FALSE, records |-> Registros(table, formula)]
        none == [none |-> TRUE, records |-> <<>>]
        Llamada(res, fault) ==
            [res |-> res, raised |-> FALSE, called |-> TRUE, fault |-> fault,
             cache |-> Guardar(restaurantes_cache, now, key, res)]
    IN  IF EnCache(restaurantes_cache, now, key)
        THEN {[res |-> ValorEnCache(restaurantes_cache, now, key), raised |-> FALSE,
               called |-> FALSE, fault |-> FALSE, cache |-> restaurantes_cache]}
        ELSE {Llamada(ok, FALSE)} \cup
             (IF faults < MaxFaults
              THEN {Llamada(none, TRUE),
                    [res |-> none, raised |-> TRUE, called |-> TRUE, fault |-> TRUE,
                     cache |-> restaurantes_cache]}
              ELSE {})

----------------------------------------------------------------------------
(* obtener_restaurantes_por_ciudad: the pieces of its body *)

sort_by_proximity == TRUE

\* restaurantes_filtrados: the records of the answer that are not in the list
restaurantes_filtrados(records, encontrados) ==
    SelectSeq(records, LAMBDA r : ~InSeq(encontrados, r))

\* faulty variant: an answer without records empties the list
AcumularOlvida(encontrados, response_data) ==
    IF response_data.none THEN <<>>
    ELSE encontrados \o restaurantes_filtrados(response_data.records, encontrados)

\* if response_data and 'records' in response_data: ... extend
Acumular(encontrados, response_data) ==
    IF response_data.none THEN encontrados
    ELSE encontrados \o restaurantes_filtrados(response_data.records, encontrados)

\* the sort key
Distancia(r, c) == haversine(c.lng, c.lat, r.fields.lng, r.fields.lat)

\* faulty variant: the list is left as accumulated
OrdenarSinOrdenar(s, c) == s

\* list.sort(key=...): stable, ascending
RECURSIVE Ordenar(_, _)
Ordenar(s, c) ==
    IF s = <<>> THEN <<>>
    ELSE LET resto == Ordenar(SubSeq(s, 1, Len(s) - 1), c)
             r == s[Len(s)]
             k == Cardinality({i \in 1..Len(resto) : Distancia(resto[i], c) <= Distancia(r, c)})
         IN  SubSeq(resto, 1, k) \o <<r>> \o SubSeq(resto, k + 1, Len(resto))

\* faulty variant: the list is cut before it is sorted
ResultadoCiudadCortaAntes(encontrados, c) ==
    IF sort_by_proximity THEN Ordenar(Take(encontrados, TargetCount), c)
    ELSE Take(encontrados, TargetCount)

\* faulty variant: the sorted list is returned whole
ResultadoCiudadSinCortar(encontrados, c) ==
    IF sort_by_proximity THEN Ordenar(encontrados, c) ELSE encontrados

\* the end of the city branch: lines 352-361
ResultadoCiudad(encontrados, c) ==
    Take(IF sort_by_proximity THEN Ordenar(encontrados, c) ELSE encontrados, TargetCount)

\* the end of the zone branch: lines 289-291
ResultadoZonas(encontrados, zonas_list) ==
    Take(encontrados, Len(zonas_list) * 10)

\* faulty variant: the ceiling is tested one step late
FueraDeRangoTardio(radio) == radio > RadioMax + RadioPaso

\* if radio_km > 2: break
FueraDeRango(radio) == radio > RadioMax

\* faulty variant: the coordinates are looked at before the zone
RamaCoordenadasPrimero(r) ==
    IF r.coordenadas # <<>> THEN "coordenadas"
    ELSE IF r.zona # <<>> THEN "zona"
    ELSE "ciudad"

\* the order of the branches: if zona / else if coordenadas / else
Rama(r) ==
    IF r.zona # <<>> THEN "zona"
    ELSE IF r.coordenadas # <<>> THEN "coordenadas"
    ELSE "ciudad"

\* isinstance(coordenadas, list) and len(coordenadas) == 2 and all numbers
CoordenadasValidas(coordenadas) ==
    Len(coordenadas) = 2 /\ \A i \in 1..Len(coordenadas) : coordenadas[i].num

PartesDe(r) == formula_parts(r.price_range, r.cocina, r.diet, r.dish)

SinCentro == [known |-> FALSE, lat |-> 0, lng |-> 0, de |-> ""]

Centro(loc, de) == [known |-> TRUE, lat |-> loc.lat, lng |-> loc.lng, de |-> de]

----------------------------------------------------------------------------
(* Responses *)

SinRespuesta ==
    [status |-> 0, kind |-> "", restaurantes |-> <<>>, formula |-> <<>>, raised |-> 0,
     at |-> 0]

\* the handlers' "except Exception": whatever was raised leaves as a 500
Error500(raised) ==
    [status |-> 500, kind |-> "error", restaurantes |-> <<>>, formula |-> <<>>,
     raised |-> raised, at |-> now]

\* faulty variant: an empty list is answered as an error
RespuestaPostVacioEsError(restaurantes, formula) ==
    IF restaurantes = <<>> THEN Error500(404)
    ELSE [status |-> 200, kind |-> "restaurants", restaurantes |-> restaurantes,
          formula |-> formula, raised |-> 0, at |-> now]

\* procesar_variables, lines 157-188; "at" is the time of the answer
RespuestaPost(restaurantes, formula) ==
    [status |-> 200, kind |-> IF restaurantes # <<>> THEN "restaurants" ELSE "mensaje",
     restaurantes |-> restaurantes, formula |-> formula, raised |-> 0, at |-> now]

\* get_restaurantes, lines 49-63 and 85-100
RespuestaGet(c) ==
    [status |-> 200, kind |-> "formula", restaurantes |-> <<>>,
     formula |-> ConLimites(<<>>, calcular_bounding_box(c.lat, c.lng, RadioGet)),
     raised |-> 0, at |-> now]

----------------------------------------------------------------------------
(* The state machine *)

Init ==
    /\ table = TablaInicial
    /\ restaurantes_cache = {}
    /\ now = 0
    /\ pc = "idle"
    /\ req = SinPeticion
    /\ zi = 1
    /\ centro = SinCentro
    /\ radio_km = RadioDefecto
    /\ restaurantes_encontrados = <<>>
    /\ filter_formula = <<>>
    /\ response = SinRespuesta
    /\ geoCalls = 0
    /\ airCalls = <<>>
    /\ recibidos = {}
    /\ served = 0
    /\ faults = 0
    /\ updates = 0

\* a request enters its handler: fresh locals, nothing called yet
Entra(r) ==
    /\ pc = "idle"
    /\ served' = served + 1
    /\ req' = r
    /\ geoCalls' = 0
    /\ airCalls' = <<>>
    /\ recibidos' = {}
    /\ zi' = 1
    /\ radio_km' = RadioDefecto
    /\ restaurantes_encontrados' = <<>>
    /\ filter_formula' = <<>>
    /\ UNCHANGED <<table, now, faults, updates>>

Recibe(r) == served < MaxRequests /\ Entra(r)

\* an exception reaches the handler's "except Exception"
Falla(raised, cache) ==
    /\ pc' = "idle"
    /\ response' = Error500(raised)
    /\ restaurantes_cache' = cache

\* obtener_restaurantes_por_ciudad returns (lista, formula): the decorator
\* stores the pair and procesar_variables answers
Devuelve(lista, formula, cache) ==
    /\ pc' = "idle"
    /\ restaurantes_encontrados' = lista
    /\ response' = RespuestaPost(lista, formula)
    /\ restaurantes_cache' =
           Guardar(cache, now, ClaveBusqueda(req), [records |-> lista, formula |-> formula])

\* POST /procesar-variables up to the first upstream call
Procesa(r) ==
    /\ centro' = SinCentro
    /\ IF r.city = "" \/ (r.date # <<>> /\ ~FechaValida(r.date))
       THEN Falla(400, restaurantes_cache)
       ELSE IF EnCache(restaurantes_cache, now, ClaveBusqueda(r))
       THEN LET v == ValorEnCache(restaurantes_cache, now, ClaveBusqueda(r))
            IN  /\ pc' = "idle"
                /\ response' = RespuestaPost(v.records, v.formula)
                /\ UNCHANGED restaurantes_cache
       ELSE IF Rama(r) = "coordenadas" /\ ~CoordenadasValidas(r.coordenadas)
       THEN Falla(400, restaurantes_cache)
       ELSE /\ pc' = Rama(r)
            /\ response' = SinRespuesta
            /\ UNCHANGED restaurantes_cache

PostRequest(r) == Recibe(r) /\ Procesa(r)

\* the client sends the request served last once more
RepeatRequest ==
    /\ req.path = "POST"
    /\ served < MaxRequests + MaxRepeats
    /\ Entra(req)
    /\ Procesa(req)

\* faulty variant: a zone with fewer than the target count is queried again, wider
SiguienteZonaEnsancha(encontrados, cache) ==
    IF pc = "zona_query" /\ Len(encontrados) < TargetCount /\ radio_km + RadioPaso <= RadioMax
    THEN /\ radio_km' = radio_km + RadioPaso
         /\ pc' = "zona_query"
         /\ restaurantes_encontrados' = encontrados
         /\ restaurantes_cache' = cache
         /\ UNCHANGED <<response, zi>>
    ELSE /\ radio_km' = radio_km
         /\ IF zi < Len(req.zona)
            THEN /\ zi' = zi + 1
                 /\ pc' = "zona"
                 /\ restaurantes_encontrados' = encontrados
                 /\ restaurantes_cache' = cache
                 /\ UNCHANGED response
            ELSE /\ Devuelve(ResultadoZonas(encontrados, req.zona), <<>>, cache)
                 /\ UNCHANGED zi

\* the zone loop moves on: the next zona_item, or the end of the branch
SiguienteZona(encontrados, cache) ==
    /\ radio_km' = radio_km
    /\ IF zi < Len(req.zona)
       THEN /\ zi' = zi + 1
            /\ pc' = "zona"
            /\ restaurantes_encontrados' = encontrados
            /\ restaurantes_cache' = cache
            /\ UNCHANGED response
       ELSE /\ Devuelve(ResultadoZonas(encontrados, req.zona), <<>>, cache)
            /\ UNCHANGED zi

\* location_zona = obtener_coordenadas_zona(zona_item, city, radio_km)
GeocodeZona ==
    /\ pc = "zona"
    /\ \E o \in obtener_coordenadas_zona(req.zona[zi], req.city, radio_km) :
          /\ geoCalls' = geoCalls + 1
          /\ faults' = faults + (IF o.fault THEN 1 ELSE 0)
          /\ IF o.found
             THEN /\ centro' = Centro(o.location, "zona")
                  /\ pc' = "zona_query"
                  /\ UNCHANGED <<restaurantes_encontrados, restaurantes_cache, response,
                                 zi, radio_km>>
             ELSE /\ SiguienteZona(restaurantes_encontrados, restaurantes_cache)
                  /\ UNCHANGED centro
    /\ UNCHANGED <<table, now, req, filter_formula, airCalls, recibidos, served, updates>>

\* what a call to airtable_request adds to the history of the request
Anota(o, radio) ==
    /\ airCalls' =
          IF o.called
          THEN Append(airCalls,
                      [radio |-> radio,
                       res |-> IF o.raised THEN "raise" ELSE IF o.res.none THEN "none" ELSE "ok"])
          ELSE airCalls
    /\ recibidos' =
          IF o.raised THEN recibidos
          ELSE recibidos \cup {o.res.records[i] : i \in 1..Len(o.res.records)}
    /\ faults' = faults + (IF o.fault THEN 1 ELSE 0)

\* the one query of a zone: lines 263-287
QueryZona ==
    /\ pc = "zona_query"
    /\ LET limites == calcular_bounding_box(centro.lat, centro.lng, radio_km)
           formula == ConLimites(PartesDe(req), limites)
       IN  \E o \in airtable_request(formula) :
              /\ Anota(o, radio_km)
              /\ IF o.raised
                 THEN Falla(0, o.cache) /\ UNCHANGED <<restaurantes_encontrados, zi, radio_km>>
                 ELSE SiguienteZona(Acumular(restaurantes_encontrados, o.res), o.cache)
    /\ UNCHANGED <<table, now, req, centro, filter_formula, geoCalls, served, updates>>

\* location = busqueda_coordenadas_airtable(coordenadas)
GeocodeCoordenadas ==
    /\ pc = "coordenadas"
    /\ \E o \in busqueda_coordenadas_airtable(req.coordenadas) :
          /\ geoCalls' = geoCalls + 1
          /\ faults' = faults + (IF o.fault THEN 1 ELSE 0)
          /\ IF o.found
             THEN /\ centro' = Centro(o.location, "coordenadas")
                  /\ radio_km' = RadioInicial
                  /\ pc' = "loop"
                  /\ UNCHANGED <<restaurantes_cache, response>>
             ELSE /\ Falla(404, restaurantes_cache)
                  /\ UNCHANGED <<centro, radio_km>>
    /\ UNCHANGED <<table, now, req, zi, restaurantes_encontrados, filter_formula,
                   airCalls, recibidos, served, updates>>

\* location_city = obtener_coordenadas(city, radio_km)
GeocodeCiudad ==
    /\ pc = "ciudad"
    /\ \E o \in obtener_coordenadas(req.city, radio_km) :
          /\ geoCalls' = geoCalls + 1
          /\ faults' = faults + (IF o.fault THEN 1 ELSE 0)
          /\ IF o.found
             THEN /\ centro' = Centro(o.location, "ciudad")
                  /\ radio_km' = RadioInicial
                  /\ pc' = "loop"
                  /\ UNCHANGED <<restaurantes_cache, response>>
             ELSE /\ Falla(404, restaurantes_cache)
                  /\ UNCHANGED <<centro, radio_km>>
    /\ UNCHANGED <<table, now, req, zi, restaurantes_encontrados, filter_formula,
                   airCalls, recibidos, served, updates>>

\* one turn of the while loop, lines 317-350, and what follows the loop when
\* this turn leaves it
QueryRadio ==
    /\ pc = "loop"
    /\ LET limites == calcular_bounding_box(centro.lat, centro.lng, radio_km)
           formula == ConLimites(PartesDe(req), limites)
       IN  /\ filter_formula' = formula
           /\ \E o \in airtable_request(formula) :
                 /\ Anota(o, radio_km)
                 /\ IF o.raised
                    THEN Falla(0, o.cache) /\ UNCHANGED <<restaurantes_encontrados, radio_km>>
                    ELSE LET encontrados == Acumular(restaurantes_encontrados, o.res)
                         IN  IF Len(encontrados) >= TargetCount
                             THEN /\ Devuelve(ResultadoCiudad(encontrados, centro), formula, o.cache)
                                  /\ UNCHANGED radio_km
                             ELSE /\ radio_km' = radio_km + RadioPaso
                                  /\ IF FueraDeRango(radio_km')
                                     THEN Devuelve(ResultadoCiudad(encontrados, centro), formula, o.cache)
                                     ELSE /\ pc' = "loop"
                                          /\ restaurantes_encontrados' = encontrados
                                          /\ restaurantes_cache' = o.cache
                                          /\ UNCHANGED response
    /\ UNCHANGED <<table, now, req, zi, centro, geoCalls, served, updates>>

\* GET /api/getRestaurants up to the geocoder call
GetRequest(r) ==
    /\ Recibe(r)
    /\ IF r.coordenadas # <<>>
       THEN IF \E i \in 1..Len(r.coordenadas) : ~r.coordenadas[i].num
            THEN Falla(400, restaurantes_cache) /\ centro' = SinCentro
            ELSE IF Len(r.coordenadas) < 2
            THEN Falla(0, restaurantes_cache) /\ centro' = SinCentro
            ELSE LET c == Centro(Punto(r.coordenadas[1].val, r.coordenadas[2].val), "coordenadas")
                 IN  /\ centro' = c
                     /\ pc' = "idle"
                     /\ response' = RespuestaGet(c)
                     /\ UNCHANGED restaurantes_cache
       ELSE IF r.zona = <<>>
            THEN Falla(400, restaurantes_cache) /\ centro' = SinCentro
            ELSE /\ pc' = "get_zona"
                 /\ response' = SinRespuesta
                 /\ centro' = SinCentro
                 /\ UNCHANGED restaurantes_cache

\* location_city = obtener_coordenadas_zona(zona, city, radio_km), main.py 78
GetGeocodeZona ==
    /\ pc = "get_zona"
    /\ \E o \in obtener_coordenadas_zona(req.zona[1], req.city, RadioGet) :
          /\ geoCalls' = geoCalls + 1
          /\ faults' = faults + (IF o.fault THEN 1 ELSE 0)
          /\ IF o.found
             THEN /\ centro' = Centro(o.location, "zona")
                  /\ pc' = "idle"
                  /\ response' = RespuestaGet(o.location)
                  /\ UNCHANGED restaurantes_cache
             ELSE /\ Falla(404, restaurantes_cache)
                  /\ UNCHANGED centro
    /\ UNCHANGED <<table, now, req, zi, radio_km, restaurantes_encontrados,
                   filter_formula, airCalls, recibidos, served, updates>>

\* time passes between two requests; dead entries leave the cache
Tick ==
    /\ pc = "idle"
    /\ now + (TTL \div 2) <= MaxTime
    /\ now' = now + (TTL \div 2)
    /\ restaurantes_cache' = Vivas(restaurantes_cache, now')
    /\ UNCHANGED <<table, pc, req, zi, centro, radio_km, restaurantes_encontrados,
                   filter_formula, response, geoCalls, airCalls, recibidos, served,
                   faults, updates>>

\* somebody edits a record of the table
UpdateRecord(i) ==
    /\ updates < MaxUpdates
    /\ updates' = updates + 1
    /\ table' = [table EXCEPT ![i].bh_message = @ + 1]
    /\ UNCHANGED <<restaurantes_cache, now, pc, req, zi, centro, radio_km,
                   restaurantes_encontrados, filter_formula, response, geoCalls,
                   airCalls, recibidos, served, faults>>

Next ==
    \/ \E r \in PeticionesPost : PostRequest(r)
    \/ \E r \in PeticionesGet : GetRequest(r)
    \/ GeocodeZona
    \/ QueryZona
    \/ GeocodeCoordenadas
    \/ GeocodeCiudad
    \/ QueryRadio
    \/ GetGeocodeZona
    \/ Tick
    \/ \E i \in Editables : UpdateRecord(i)

Spec == Init /\ [][Next]_vars

\* the searches sent twice: by city, by zone, by coordinates, and one that
\* is rejected
PeticionesCache ==
    {Peticion("POST", "Madrid", <<>>, <<>>, <<>>, <<>>, <<>>),
     Peticion("POST", "Madrid", <<>>, <<>>, <<>>, <<"Malasana">>, <<>>),
     Peticion("POST", "Madrid", <<>>, <<>>, <<>>, <<>>, CoordenadasBuenas),
     Peticion("POST", "Madrid", <<>>, <<>>, <<>>, <<>>, <<Num(4042240)>>)}

NextCache ==
    \/ \E r \in PeticionesCache : PostRequest(r)
    \/ RepeatRequest
    \/ GeocodeZona
    \/ QueryZona
    \/ GeocodeCoordenadas
    \/ GeocodeCiudad
    \/ QueryRadio
    \/ Tick
    \/ \E i \in Editables : UpdateRecord(i)

\* calcular_bounding_box on its own: centres at whole degrees from pole to
\* pole, the radii of the loop and the smallest radii of the unit
LatitudesCaja == {-8900000, -4041680, 0, 4041680, 8900000}

LongitudesCaja == {-17990000, -370380, 0}

RadiosCaja == 1..MaxRadioMinimo \cup {RadioInicial, RadioInicial + RadioPaso, RadioMax}

InitCaja ==
    /\ table = TablaInicial
    /\ restaurantes_cache = {}
    /\ now = 0
    /\ pc = "caja"
    /\ req = SinPeticion
    /\ zi = 1
    /\ centro \in {Centro(Punto(lat, lon), "caja") :
                      lat \in LatitudesCaja, lon \in LongitudesCaja}
    /\ radio_km \in RadiosCaja
    /\ restaurantes_encontrados = <<>>
    /\ filter_formula = <<>>
    /\ response = SinRespuesta
    /\ geoCalls = 0
    /\ airCalls = <<>>
    /\ recibidos = {}
    /\ served = 0
    /\ faults = 0
    /\ updates = 0

\* limites = calcular_bounding_box(lat_centro, lon_centro, radio_km) and the
\* four clauses made of it, lines 320-324
CalculaCaja ==
    /\ pc = "caja"
    /\ pc' = "caja_hecha"
    /\ filter_formula' =
          ConLimites(<<>>, calcular_bounding_box(centro.lat, centro.lng, radio_km))
    /\ UNCHANGED <<table, restaurantes_cache, now, req, zi, centro, radio_km,
                   restaurantes_encontrados, response, geoCalls, airCalls, recibidos,
                   served, faults, updates>>

\* radio_km += 0.5 and, under the ceiling, the box of the next turn
EnsanchaCaja ==
    /\ pc = "caja_hecha"
    /\ radio_km' = radio_km + RadioPaso
    /\ ~FueraDeRango(radio_km')
    /\ filter_formula' =
          ConLimites(<<>>, calcular_bounding_box(centro.lat, centro.lng, radio_km'))
    /\ UNCHANGED <<table, restaurantes_cache, now, pc, req, zi, centro,
                   restaurantes_encontrados, response, geoCalls, airCalls, recibidos,
                   served, faults, updates>>

NextCaja == CalculaCaja \/ EnsanchaCaja

SpecCaja == InitCaja /\ [][NextCaja]_vars

\* the service with clients that repeat their last search
SpecCache == Init /\ [][NextCache]_vars

----------------------------------------------------------------------------
(* Properties *)

\* a request has been answered
Hecho == pc = "idle" /\ response.status # 0

Post200 == Hecho /\ req.path = "POST" /\ response.status = 200

\* the centre of a search without zone: the pair supplied, else the city's place
Referencia(r) ==
    IF r.coordenadas # <<>>
    THEN Punto(r.coordenadas[1].val, r.coordenadas[2].val)
    ELSE CiudadesConocidas[r.city]

OrdenadoPor(s, c) ==
    \A i, j \in 1..Len(s) : i < j => Distancia(s[i], c) <= Distancia(s[j], c)

MismosRegistros(a, b) ==
    Len(a) = Len(b) /\ \A i \in 1..Len(b) : InSeq(a, b[i])

\* C1: the list returned holds each record identifier at most once.
C1_SinDuplicados ==
    Hecho =>
        \A i, j \in 1..Len(response.restaurantes) :
            i # j => response.restaurantes[i].id # response.restaurantes[j].id

\* C2, as the specification states it: whenever a centre is known (from a zone, from the
\* coordinates or from the city) the list returned is in non-decreasing
\* distance to it.
C2_OrdenadoConReferencia ==
    (Post200 /\ centro.known /\ Len(req.zona) <= 1)
        => OrdenadoPor(response.restaurantes, centro)

\* C2, as the code has it: without zone, the list returned is in non-decreasing
\* distance to the coordinates supplied or, without them, to the city's place.
C2_OrdenadoSinZona ==
    (Post200 /\ req.zona = <<>>)
        => OrdenadoPor(response.restaurantes, Referencia(req))

\* the sort has moved records: the list returned is not in the backend's order
C2_Testigo ==
    /\ Post200 /\ req.zona = <<>> /\ centro.known
    /\ \E i, j \in 1..Len(response.restaurantes) :
          i < j /\ response.restaurantes[i].fields.NBH2 < response.restaurantes[j].fields.NBH2

\* C3: the loop makes at most ceiling / step = 4 backend queries, whatever
\* the backend answers, and the number of accumulated records never decreases
\* from one step to the next.
C3_BucleAcotado ==
    /\ [](/\ req.zona = <<>> => Len(airCalls) <= RadioMax \div RadioPaso
          /\ pc = "loop" => (Len(airCalls) < RadioMax \div RadioPaso /\ radio_km <= RadioMax))
    /\ [][pc = "loop" => Len(restaurantes_encontrados') >= Len(restaurantes_encontrados)]_vars

\* the fourth query has been made and the loop has ended short of the target
C3_Testigo ==
    /\ Post200 /\ Len(airCalls) = 4
    /\ airCalls[4].radio = RadioMax
    /\ Len(response.restaurantes) \in 1..(TargetCount - 1)

\* the records of the table that match the request within the ceiling box
Candidatos ==
    {i \in DOMAIN table :
        EvalFormula(table[i],
                    ConLimites(PartesDe(req),
                               calcular_bounding_box(centro.lat, centro.lng, RadioMax)))}

\* C4, as the specification states it: with 10 or more matching records in the 2 km box, no
\* matching record left out is strictly closer to the centre than a record
\* of the result.
C4_LosMasCercanos ==
    (Post200 /\ req.zona = <<>> /\ centro.known /\ Cardinality(Candidatos) >= TargetCount)
        => \A m \in Candidatos :
              (\A k \in 1..Len(response.restaurantes) : response.restaurantes[k].id # m)
                  => \A k \in 1..Len(response.restaurantes) :
                        Distancia([id |-> m, fields |-> table[m]], centro)
                            >= Distancia(response.restaurantes[k], centro)

\* C4, as the code has it: no record the backend answered with and the result leaves
\* out is strictly closer to the centre than a record of the result.
C4_LosMasCercanosRecibidos ==
    (Post200 /\ req.zona = <<>> /\ centro.known)
        => \A m \in recibidos :
              ~InSeq(response.restaurantes, m)
                  => \A k \in 1..Len(response.restaurantes) :
                        Distancia(m, centro) >= Distancia(response.restaurantes[k], centro)

\* a record received was cut from the result
C4_Testigo ==
    /\ Post200 /\ req.zona = <<>> /\ centro.known
    /\ \E m \in recibidos : ~InSeq(response.restaurantes, m)

\* C5, as the specification states it: on every path the centre comes from the zone if one is
\* supplied, else from the coordinates if supplied, else from the city.
C5_Precedencia ==
    centro.known =>
        centro.de = (IF req.zona # <<>> THEN "zona"
                     ELSE IF req.coordenadas # <<>> THEN "coordenadas"
                     ELSE "ciudad")

\* C5, as the code has it: that order on POST /procesar-variables; on GET
\* /api/getRestaurants the coordinates come first, then the zone, and the
\* city alone is never geocoded.
C5_PrecedenciaPorRuta ==
    centro.known =>
        centro.de = (IF req.path = "POST"
                     THEN (IF req.zona # <<>> THEN "zona"
                           ELSE IF req.coordenadas # <<>> THEN "coordenadas"
                           ELSE "ciudad")
                     ELSE (IF req.coordenadas # <<>> THEN "coordenadas" ELSE "zona"))

\* a POST with zone and coordinates has searched around the zone
C5_Testigo ==
    /\ Post200 /\ req.zona # <<>> /\ req.coordenadas # <<>>
    /\ centro.known /\ centro.de = "zona" /\ airCalls # <<>>

\* C6, as the specification states it: with coordinates and no zone the geocoder is not called.
C6_SinGeocodificador ==
    (req.zona = <<>> /\ req.coordenadas # <<>>) => geoCalls = 0

\* C6, as the code has it: with coordinates and no zone, GET makes no geocoder call;
\* POST makes one, the reverse lookup of the pair, before any backend query:
\* answered OK the pair itself is the centre, otherwise the request ends in
\* the 500 error without a backend query.
C6_GeocodificacionInversa ==
    (req.zona = <<>> /\ req.coordenadas # <<>>) =>
        /\ geoCalls <= 1
        /\ req.path = "GET" => geoCalls = 0
        /\ centro.known => centro = Centro(Referencia(req), "coordenadas")
        /\ (req.path = "POST" /\ centro.known) => geoCalls = 1
        /\ airCalls # <<>> => centro.known
        /\ (Hecho /\ req.path = "POST" /\ geoCalls = 1 /\ ~centro.known)
              => (response.status = 500 /\ airCalls = <<>>)

\* a POST with coordinates has been answered from a search around the pair
C6_Testigo ==
    /\ Post200 /\ req.zona = <<>> /\ req.coordenadas # <<>>
    /\ geoCalls = 1 /\ centro.known /\ response.restaurantes # <<>>

\* C7, as the specification states it: a resolved zone is searched from the initial radius and
\* widened until the target count or the ceiling.
C7_ZonaSeEnsancha ==
    (Post200 /\ Len(req.zona) = 1 /\ centro.known /\ airCalls # <<>>)
        => /\ airCalls[1].radio = RadioInicial
           /\ \/ Len(response.restaurantes) >= TargetCount
              \/ airCalls[Len(airCalls)].radio = RadioMax

\* C7, as the code has it: a resolved zone gets at most one backend query, over the
\* box of the radio_km argument (1 km), never a wider one.
C7_UnaConsultaPorZona ==
    (req.path = "POST" /\ req.zona # <<>>) =>
        /\ Len(airCalls) <= geoCalls
        /\ geoCalls <= Len(req.zona)
        /\ radio_km = RadioDefecto
        /\ \A i \in 1..Len(airCalls) : airCalls[i].radio = RadioDefecto

\* a zone was resolved, queried once, and answered short of the target
C7_Testigo ==
    /\ Post200 /\ req.zona = <<"Malasana">> /\ centro.known
    /\ Len(airCalls) = 1 /\ airCalls[1].res = "ok"
    /\ Len(response.restaurantes) \in 1..(TargetCount - 1)

\* C8: a zone the geocoder does not resolve is answered 404 with no backend
\* query.
C8_ZonaNoHallada404 ==
    (/\ Hecho /\ Len(req.zona) = 1 /\ geoCalls = 1 /\ ~centro.known
     /\ (req.path = "POST" \/ req.coordenadas = <<>>))
        => (response.status = 404 /\ airCalls = <<>>)

EntradaInvalida(r) ==
    \/ r.path = "POST" /\ r.city = ""
    \/ r.path = "POST" /\ r.date # <<>> /\ ~FechaValida(r.date)
    \/ r.zona = <<>> /\ r.coordenadas # <<>> /\ ~CoordenadasValidas(r.coordenadas)

\* C9: an invalid input is answered 400 and no geocoder or backend call is
\* made for it.
C9_EntradaInvalida400 ==
    (Hecho /\ EntradaInvalida(req))
        => (response.status = 400 /\ geoCalls = 0 /\ airCalls = <<>>)

\* C10, as the specification states it: a failed backend call in the loop, a status other than
\* 200 or a transport error, never ends the request with an error.
C10_FalloNoEsError ==
    (/\ Hecho /\ req.path = "POST" /\ req.zona = <<>>
     /\ \E i \in 1..Len(airCalls) : airCalls[i].res \in {"none", "raise"})
        => response.status = 200

\* C10, as the code has it: a status other than 200 counts as zero records: the loop
\* goes to the next radius with the accumulated records kept, and after the
\* last radius the request is answered 200 with them; a transport error ends
\* the request with the 500 error and no records.
C10_No200ComoVacio ==
    [][(pc = "loop" /\ Len(airCalls') = Len(airCalls) + 1) =>
          /\ airCalls'[Len(airCalls')].res = "none" =>
                \/ /\ pc' = "loop"
                   /\ radio_km' = radio_km + RadioPaso
                   /\ restaurantes_encontrados' = restaurantes_encontrados
                \/ /\ pc' = "idle"
                   /\ radio_km' > RadioMax
                   /\ response'.status = 200
                   /\ MismosRegistros(response'.restaurantes, restaurantes_encontrados)
          /\ airCalls'[Len(airCalls')].res = "raise" =>
                /\ pc' = "idle"
                /\ response'.status = 500
                /\ response'.restaurantes = <<>>]_vars

\* a query of the loop was answered with a status other than 200 and the
\* request ended with the records of the other queries
C10_Testigo ==
    /\ Post200 /\ req.zona = <<>> /\ response.restaurantes # <<>>
    /\ \E i \in 1..Len(airCalls) : airCalls[i].res = "none"

\* the step in which the search answered last is sent again
Repite == pc = "idle" /\ served' = served + 1 /\ req' = req /\ req.path = "POST"

\* the search answered last ran the function body and its answer is younger
\* than the time-to-live
Reciente == response.status # 0 /\ geoCalls >= 1 /\ now < response.at + TTL

\* the repeated search is answered at once, with the list and formula of the
\* answer before it
DeCache ==
    /\ pc' = "idle"
    /\ response'.status = response.status
    /\ response'.restaurantes = response.restaurantes
    /\ response'.formula = response.formula

\* C11, as the specification states it: the same search sent again within
\* the time-to-live is answered with the identical result and no upstream
\* call, whatever the outcome of the first call was.
C11_SiempreDeCache == [][(Repite /\ Reciente) => DeCache]_vars

\* C11, as the code has it: a search that returned is answered from the
\* cache, identically and without upstream call, while its entry is younger
\* than the time-to-live, and runs again once the entry has expired; a
\* search that ended in an error other than the rejection of its input left
\* no entry and runs again.
C11_SoloLoDevuelto ==
    [][Repite =>
        /\ (Reciente /\ response.status = 200) => DeCache
        /\ (response.status = 200 /\ now >= response.at + TTL)
              => pc' \in {"zona", "coordenadas", "ciudad"}
        /\ (response.status = 500 /\ response.raised # 400)
              => pc' \in {"zona", "coordenadas", "ciudad"}]_vars

\* a search was repeated within the time-to-live and answered from the cache
\* with the records of the first answer
C11_Testigo ==
    /\ served = 2 /\ pc = "idle" /\ now = TTL \div 2
    /\ response.status = 200 /\ response.restaurantes # <<>>
    /\ geoCalls = 0 /\ airCalls = <<>>

\* C12, as the specification states it: the list returned never holds more
\* than 10 records, several comma separated zones included.
C12_NuncaMasDeDiez == Post200 => Len(response.restaurantes) <= TargetCount

\* C12, as the code has it: the list returned holds at most 10 records when
\* no zone is supplied, and at most 10 records per comma separated zone when
\* a zone is supplied.
C12_DiezPorZona ==
    Post200 =>
        Len(response.restaurantes)
            <= (IF req.zona = <<>> THEN TargetCount ELSE Len(req.zona) * 10)

\* a search without zone that received more than 10 records and returned 10
C12_Testigo ==
    /\ Post200 /\ req.zona = <<>>
    /\ Cardinality(recibidos) > TargetCount
    /\ Len(response.restaurantes) = TargetCount

\* the formula has a clause that tests for the text str
ClausulaCon(formula, str) ==
    \E i \in 1..Len(formula) :
        \/ formula[i].str = str
        \/ \E j \in 1..Len(formula[i].sub) : formula[i].sub[j].str = str

\* the formula has a clause on the field
ClausulaDe(formula, field) ==
    \E i \in 1..Len(formula) :
        \/ formula[i].field = field
        \/ \E j \in 1..Len(formula[i].sub) : formula[i].sub[j].field = field

\* C13: the formula sent to the backend has a clause that matches the city,
\* a clause for each criterion supplied (price range, cuisine, diet, dish,
\* the weekday name of a valid date) and the bounds of the box.
C13_CriteriosEnFormula ==
    (req.path = "POST" /\ filter_formula # <<>>) =>
        /\ ClausulaCon(filter_formula, req.city)
        /\ req.price_range # <<>> => ClausulaDe(filter_formula, "price_range")
        /\ req.cocina # <<>> => ClausulaDe(filter_formula, "categories_string")
        /\ req.diet # "" => ClausulaCon(filter_formula, req.diet)
        /\ req.dish # <<>> => ClausulaDe(filter_formula, "google_reviews")
        /\ req.date # <<>> => ClausulaCon(filter_formula, obtener_dia_semana(req.date))
        /\ ClausulaDe(filter_formula, "location/lat")
        /\ ClausulaDe(filter_formula, "location/lng")

\* the loop of the request answered last left by the ceiling, with nothing
\* accumulated and every backend call answered 200
TechoSinRegistros ==
    /\ Hecho /\ req.path = "POST" /\ req.zona = <<>>
    /\ radio_km > RadioMax
    /\ recibidos = {}
    /\ \A i \in 1..Len(airCalls) : airCalls[i].res = "ok"

\* C14: when the loop reaches the ceiling with no record accumulated and no
\* upstream call failed, POST /procesar-variables answers 200 with the
\* no-results message, not an error.
C14_SinResultadosNoEsError ==
    TechoSinRegistros =>
        /\ response.status = 200
        /\ response.kind = "mensaje"
        /\ response.restaurantes = <<>>

\* four queries, up to 2 km, all answered 200 without records
C14_Testigo ==
    /\ TechoSinRegistros
    /\ Len(airCalls) = RadioMax \div RadioPaso
    /\ airCalls[Len(airCalls)].radio = RadioMax

\* the box of the clauses is not empty in either direction
CajaNoVacia(f) == f[1].num < f[2].num /\ f[3].num < f[4].num

\* the box of the clauses g lies within the box of the clauses f
CajaContiene(f, g) ==
    /\ f[1].num <= g[1].num /\ g[2].num <= f[2].num
    /\ f[3].num <= g[3].num /\ g[4].num <= f[4].num

\* the radius is not below what the arithmetic resolves: radio / 111.32 km
\* per degree is at least one unit of the coordinates
Resoluble(radio) == radio * 10000 >= KmPorGradoLat

RadiosDelBucle == <<500, 1000, 1500, 2000>>

\* the radii of the backend queries made for the request, in order
RadiosConsultados == [i \in 1..Len(airCalls) |-> airCalls[i].radio]

\* a step that is a turn of the loop, not an edit of the table meanwhile
Turno == pc = "loop" /\ table' = table

\* C16, as the specification states it: the radii of the backend queries of
\* a search without zone are a prefix of 0.5, 1.0, 1.5, 2.0 km: the first
\* query is at 0.5 km and each later one 0.5 km wider than the one before.
C16_ConsultasSonPrefijo ==
    (req.path = "POST" /\ req.zona = <<>>) =>
        /\ Len(airCalls) <= Len(RadiosDelBucle)
        /\ RadiosConsultados = SubSeq(RadiosDelBucle, 1, Len(airCalls))

\* C16, as the code has it: the turns of the loop of a search without zone
\* go through 0.5, 1.0, 1.5, 2.0 km in that order, the first at 0.5 km
\* whatever the radio_km argument, none above 2 km and none with 10 or more
\* records accumulated; a turn queries the backend at its radius unless the
\* cache holds the answer to its formula, so the radii of the queries are
\* increasing radii of that sequence, and with nothing cached a prefix of it.
C16_TurnosSonPrefijo ==
    /\ [](pc = "loop" =>
            /\ \E k \in 1..Len(RadiosDelBucle) : radio_km = RadiosDelBucle[k]
            /\ Len(restaurantes_encontrados) < TargetCount)
    /\ []((req.path = "POST" /\ req.zona = <<>>) =>
            /\ \A i \in 1..Len(airCalls) :
                  \E k \in 1..Len(RadiosDelBucle) : airCalls[i].radio = RadiosDelBucle[k]
            /\ \A i, j \in 1..Len(airCalls) :
                  i < j => airCalls[i].radio < airCalls[j].radio
            /\ served = 1 => RadiosConsultados = SubSeq(RadiosDelBucle, 1, Len(airCalls)))
    /\ [][(pc # "loop" /\ pc' = "loop") => radio_km' = RadiosDelBucle[1]]_vars
    /\ [][(Turno /\ pc' = "loop") =>
              \E k \in 1..(Len(RadiosDelBucle) - 1) :
                  radio_km = RadiosDelBucle[k] /\ radio_km' = RadiosDelBucle[k + 1]]_vars
    /\ [][(pc = "loop" /\ airCalls' # airCalls) =>
              airCalls' = Append(airCalls, airCalls'[Len(airCalls')])
              /\ airCalls'[Len(airCalls')].radio = radio_km]_vars
    /\ [][(Turno /\ served = 1) => Len(airCalls') = Len(airCalls) + 1]_vars

\* a search by coordinates answered after the queries at 0.5 and 1.0 km
C16_Testigo ==
    /\ Post200 /\ req.zona = <<>>
    /\ RadiosConsultados = <<500, 1000>>
    /\ Len(response.restaurantes) = TargetCount

====
